---------------------------- MODULE Spec2Model ----------------------------
(***************************************************************************)
(* Model of the RAG chatbot of mi_chatbot_rag: the DocumentIndexer          *)
(* (src/indexer.py), the InformationRetriever (src/retriever.py), the       *)
(* RagChatbot session (src/chatbot.py) and its two front-ends, the          *)
(* command line (app.py) and the interactive page (streamlit_app.py).       *)
(*                                                                         *)
(* The llama_index objects the code calls are modelled at the call sites:  *)
(*   - ChatMemoryBuffer(token_limit): put appends to the stored sequence,  *)
(*     get_messages reads the newest suffix that fits the token limit and  *)
(*     does not start with an assistant message, reset empties the store;  *)
(*   - VectorStoreIndex / VectorIndexRetriever: top-k selection over the   *)
(*     stored embeddings with a min-heap of (similarity, node id), then a  *)
(*     stable sort by descending similarity;                               *)
(*   - storage_context.persist / load_index_from_storage: one JSON file    *)
(*     per store, written one after the other, read back only when all     *)
(*     of them are present.                                                *)
(* Embeddings and scores are integers (dot product of small vectors), a    *)
(* token count is additive over the messages of a history.                 *)
(***************************************************************************)
EXTENDS Integers, Sequences, FiniteSets, TLC

Ok == "ok"
NoIndex == <<>>

\* ------------------------------------------------------------------ bounds
MaxDocs == 2        \* documents a corpus directory can hold
MaxTurns == 2       \* successful chat turns of one chatbot session
MaxMessages == 4    \* entries of the page's message list
MaxK == 3           \* largest top_k of a retriever built directly on an index

\* ------------------------------------------------- constants of the program
TokenLimit == 4096
TopK == 3
PreviewLen == 100

Docs == 1..MaxDocs
NodeIds == 1..MaxDocs
UserInputs == {"q_short", "q_long"}
Responses == {"a_short", "a_long"}
Placeholder == "No hay historial de chat previo."

Min(a, b) == IF a < b THEN a ELSE b

\* -------------------------------------------------------------- small helpers
RECURSIVE SumSeq(_)
SumSeq(s) == IF s = <<>> THEN 0 ELSE Head(s) + SumSeq(Tail(s))

\* the last n elements of s (Python's s[-n:] for 1 <= n <= len(s))
LastN(s, n) == SubSeq(s, Len(s) - n + 1, Len(s))

IsSuffix(s, t) == Len(s) <= Len(t) /\ s = LastN(t, Len(s))

\* ------------------------------------------------------------ chat memory
\* the tokenizer's count for one message content
Tokens(content) ==
    CASE content = "q_short" -> 10
      [] content = "q_long"  -> 2500
      [] content = "a_short" -> 10
      [] content = "a_long"  -> 2500
      [] OTHER               -> 1

TokenCount(msgs) == SumSeq([i \in 1..Len(msgs) |-> Tokens(msgs[i].content)])

Msg(role, content) == [role |-> role, content |-> content]

\* chat_history.put(role, content)
Put(store, role, content) == Append(store, Msg(role, content))

\* the messages chat_history[-n:] of Python, where -0 is 0: the whole list
PyLastN(store, n) == IF n <= 0 THEN store ELSE LastN(store, n)

\* skip the assistant messages a cut would leave at the head of the history
RECURSIVE SkipAssistant(_, _)
SkipAssistant(store, n) ==
    IF n >= 1 /\ store[Len(store) - n + 1].role = "assistant"
    THEN SkipAssistant(store, n - 1)
    ELSE n

\* drop the oldest messages until the rest fits the token limit
RECURSIVE Shrink(_, _, _)
Shrink(store, n, limit) ==
    IF TokenCount(PyLastN(store, n)) > limit /\ n > 1
    THEN Shrink(store, SkipAssistant(store, n - 1), limit)
    ELSE n

\* a buffer that keeps the oldest messages instead of the newest
GetMessagesOldestKept(store, limit) ==
    LET n == Shrink(store, Len(store), limit)
    IN  IF TokenCount(PyLastN(store, n)) > limit \/ n <= 0
        THEN <<>>
        ELSE SubSeq(store, 1, n)

\* chat_history.get_messages() of a buffer with token_limit = limit
GetMessagesOf(store, limit) ==
    LET n == Shrink(store, Len(store), limit)
    IN  IF TokenCount(PyLastN(store, n)) > limit \/ n <= 0
        THEN <<>>
        ELSE LastN(store, n)

GetMessages(store) == GetMessagesOf(store, TokenLimit)

\* RagChatbot._format_chat_history: the text as its lines
FormatLine(m) ==
    <<IF m.role = "user" THEN "Usuario" ELSE "Asistente", m.content>>

FormatChatHistory(store) ==
    LET messages == GetMessages(store)
    IN  IF messages = <<>>
        THEN <<<<Placeholder>>>>
        ELSE [i \in 1..Len(messages) |-> FormatLine(messages[i])]

\* RagChatbot.get_chat_history
GetChatHistory(store) ==
    LET messages == GetMessages(store)
    IN  [i \in 1..Len(messages) |->
            [role |-> messages[i].role, content |-> messages[i].content]]

\* ------------------------------------------------------------ vector index
\* The embedding of a document's chunk and of a query, as a small vector.
Embed(d) == IF d % 2 = 1 THEN <<1, 0>> ELSE <<1, 1>>

QueryVec(q) == IF q = "q_short" THEN <<1, 0>> ELSE <<0, 1>>

\* the length of the chunk text of document d
TextLen(d) == PreviewLen + d - 1

Similarity(qv, v) == qv[1] * v[1] + qv[2] * v[2]

\* An index is the sequence of its entries in insertion order; a node id is
\* drawn when the node is created and is unrelated to that order.
Entry(id, d) == [id |-> id, vec |-> Embed(d), text |-> [doc |-> d, len |-> TextLen(d)]]

\* the documents of a corpus in the order the directory reader lists them
RECURSIVE SortedDocs(_)
SortedDocs(S) ==
    IF S = {} THEN <<>>
    ELSE LET m == CHOOSE x \in S : \A y \in S : x <= y
         IN  <<m>> \o SortedDocs(S \ {m})

\* VectorStoreIndex.from_documents: one entry per document of the corpus, in
\* the reader's order; ids[i] is the node id drawn for the i-th entry
IndexOf(corpus, ids) ==
    LET ds == SortedDocs(corpus)
    IN  [i \in 1..Len(ds) |-> Entry(ids[i], ds[i])]

\* the orders in which node ids can be drawn
IdDraws ==
    { f \in [1..MaxDocs -> NodeIds] : \A i, j \in 1..MaxDocs : i # j => f[i] # f[j] }

\* heapq orders (similarity, node id) pairs as tuples
TupleLess(a, b) == a[1] < b[1] \/ (a[1] = b[1] /\ a[2] < b[2])

Swap(h, i, j) == [h EXCEPT ![i] = h[j], ![j] = h[i]]

\* heapq._siftdown: move the item at pos towards the root
RECURSIVE SiftDown(_, _, _)
SiftDown(h, startpos, pos) ==
    IF pos > startpos /\ TupleLess(h[pos], h[pos \div 2])
    THEN SiftDown(Swap(h, pos, pos \div 2), startpos, pos \div 2)
    ELSE h

\* heapq._siftup: bubble the smaller child up until a leaf, then sift down
RECURSIVE SiftUp(_, _, _)
SiftUp(h, startpos, pos) ==
    LET child == 2 * pos
        right == child + 1
        pick  == IF right <= Len(h) /\ ~TupleLess(h[child], h[right])
                 THEN right ELSE child
    IN  IF child <= Len(h)
        THEN SiftUp(Swap(h, pos, pick), startpos, pick)
        ELSE SiftDown(h, startpos, pos)

HeapPush(h, item) == SiftDown(Append(h, item), 1, Len(h) + 1)

\* the heap after heapq.heappop
HeapPop(h) ==
    LET last == h[Len(h)]
        rest == SubSeq(h, 1, Len(h) - 1)
    IN  IF rest = <<>> THEN rest
        ELSE SiftUp([rest EXCEPT ![1] = last], 1, 1)

\* sorted(..., key = similarity, reverse = True): stable
RECURSIVE InsertDesc(_, _)
InsertDesc(sorted, x) ==
    IF sorted = <<>> THEN <<x>>
    ELSE IF Head(sorted)[1] >= x[1]
         THEN <<Head(sorted)>> \o InsertDesc(Tail(sorted), x)
         ELSE <<x>> \o sorted

RECURSIVE SortDesc(_)
SortDesc(s) ==
    IF s = <<>> THEN <<>>
    ELSE InsertDesc(SortDesc(SubSeq(s, 1, Len(s) - 1)), s[Len(s)])

\* the heap after the first n entries of the index have been offered
RECURSIVE TopKHeap(_, _, _, _)
TopKHeap(index, qv, k, n) ==
    IF n = 0 THEN <<>>
    ELSE LET before == TopKHeap(index, qv, k, n - 1)
             pushed == HeapPush(before, <<Similarity(qv, index[n].vec), index[n].id>>)
         IN  IF Len(pushed) > k THEN HeapPop(pushed) ELSE pushed

EntryOf(index, id) == index[CHOOSE i \in 1..Len(index) : index[i].id = id]

\* a retriever that returns the first k entries whatever their similarity
SearchFirstK(index, qv, k) ==
    [i \in 1..Min(k, Len(index)) |->
        [id |-> index[i].id, score |-> Similarity(qv, index[i].vec),
         text |-> index[i].text]]

\* VectorIndexRetriever(index, similarity_top_k = k).retrieve: the nodes with
\* their scores
Search(index, qv, k) ==
    LET tups == SortDesc(TopKHeap(index, qv, k, Len(index)))
    IN  [i \in 1..Len(tups) |->
            [id |-> tups[i][2], score |-> tups[i][1],
             text |-> EntryOf(index, tups[i][2]).text]]

\* InformationRetriever.get_retrieval_context
\* node.text: the characters of a node's text, as character codes
NodeText(text) == [i \in 1..text.len |-> 97 + ((text.doc + i) % 26)]

\* the string "..."
Ellipsis == <<46, 46, 46>>

\* a preview that is the whole text
TextPreviewWhole(text) == NodeText(text)

\* node.text[:100] + "..." if len(node.text) > 100 else node.text
TextPreview(text) ==
    IF Len(NodeText(text)) > PreviewLen
    THEN SubSeq(NodeText(text), 1, PreviewLen) \o Ellipsis
    ELSE NodeText(text)

GetRetrievalContext(index, q, k) ==
    LET nodes == Search(index, QueryVec(q), k)
    IN  [num_nodes_retrieved |-> Len(nodes),
         nodes_summary |-> [i \in 1..Len(nodes) |->
             [score |-> nodes[i].score,
              text_preview |-> TextPreview(nodes[i].text)]]]

\* a retriever that consumes the best node it returns
IndexAfterRetrieveDropsBest(index, q, k) ==
    LET nodes == Search(index, QueryVec(q), k)
    IN  IF nodes = <<>> THEN index
        ELSE SelectSeq(index, LAMBDA e : e.id # nodes[1].id)

\* the index after retriever.retrieve / query_engine.query: both only read
\* the index they were given
IndexAfterRetrieve(index, q, k) == index

\* InformationRetriever.retrieve_information: the query engine's answer is
\* synthesised from the retrieved nodes
RetrieveInformation(index, q, k) ==
    [nodes |-> Search(index, QueryVec(q), k)]

\* -------------------------------------------------------------- persistence
\* The files storage_context.persist writes, in the order it writes them.
PersistFiles == <<"docstore.json", "index_store.json", "default__vector_store.json">>

Absent == [present |-> FALSE, data |-> <<>>]

\* json.dumps of a number: its decimal digits, most significant first
RECURSIVE Digits(_)
Digits(n) == IF n < 10 THEN <<n>> ELSE Append(Digits(n \div 10), n % 10)

\* json.loads of a number
RECURSIVE Number(_)
Number(ds) ==
    IF Len(ds) = 1 THEN ds[1]
    ELSE 10 * Number(SubSeq(ds, 1, Len(ds) - 1)) + ds[Len(ds)]

EncodeVec(v) == [i \in 1..Len(v) |-> Digits(v[i])]

\* a decoder that keeps only the first component of an embedding
DecodeVecTruncated(e) == [i \in 1..Len(e) |-> IF i = 1 THEN Number(e[i]) ELSE 0]

DecodeVec(e) == [i \in 1..Len(e) |-> Number(e[i])]

\* the content of file f (a position of PersistFiles) for an index
FileContent(index, f) ==
    CASE f = 1 -> [i \in 1..Len(index) |-> [id |-> index[i].id, text |-> index[i].text]]
      [] f = 2 -> [i \in 1..Len(index) |-> index[i].id]
      [] f = 3 -> [i \in 1..Len(index) |-> [id |-> index[i].id, vec |-> EncodeVec(index[i].vec)]]

\* the directory after persist has written the first n files of the index
WriteFiles(files, index, n) ==
    [f \in 1..Len(PersistFiles) |->
        IF f <= n THEN [present |-> TRUE, data |-> FileContent(index, f)]
        ELSE files[f]]

EmptyDir == [f \in 1..Len(PersistFiles) |-> Absent]

AllFilesPresent(files) == \A f \in 1..Len(PersistFiles) : files[f].present

\* the text the docstore holds for a node id
DocText(docstore, id) ==
    IF \E i \in 1..Len(docstore) : docstore[i].id = id
    THEN docstore[CHOOSE i \in 1..Len(docstore) : docstore[i].id = id].text
    ELSE [doc |-> 0, len |-> 0]

\* load_index_from_storage of a directory that holds every file: the vector
\* store's embeddings in their stored order, with the docstore's texts
ReadIndex(files) ==
    LET vectors == files[3].data
    IN  [i \in 1..Len(vectors) |->
            [id |-> vectors[i].id,
             vec |-> DecodeVec(vectors[i].vec),
             text |-> DocText(files[1].data, vectors[i].id)]]

\* the directory holds exactly what one complete persist of some index wrote
HoldsCompleteIndex(files) ==
    /\ AllFilesPresent(files)
    /\ \A f \in 1..Len(PersistFiles) :
            files[f].data = FileContent(ReadIndex(files), f)

\* ---------------------------------------------------------- DocumentIndexer

\* load_documents without the test that the directory exists
LoadDocumentsNoExistsTest(dataDir) ==
    IF dataDir.docs = {} THEN "ValueError" ELSE "ok"

\* DocumentIndexer.load_documents: what it raises, or Ok
LoadDocuments(dataDir) ==
    IF ~dataDir.exists THEN "FileNotFoundError"
    ELSE IF dataDir.docs = {} THEN "ValueError"
    ELSE Ok

\* DocumentIndexer.create_index on an indexer whose index is `index`: the
\* outcomes [error, index]; the embedding provider may fail
CreateIndexOutcomes(index, dataDir, ids) ==
    IF LoadDocuments(dataDir) # Ok
    THEN {[error |-> LoadDocuments(dataDir), index |-> index]}
    ELSE {[error |-> "ProviderError", index |-> index],
          [error |-> Ok, index |-> IndexOf(dataDir.docs, ids)]}

\* DocumentIndexer.save_index: the outcomes [error, storage]; persist may
\* fail after any number of files
SaveIndexOutcomes(index, storage) ==
    IF index = NoIndex
    THEN {[error |-> "ValueError", storage |-> storage]}
    ELSE LET dir == IF storage.exists THEN storage.files ELSE EmptyDir
         IN  {[error |-> IF n = Len(PersistFiles) THEN Ok ELSE "OSError",
               storage |-> [exists |-> TRUE, files |-> WriteFiles(dir, index, n)]] :
                 n \in 0..Len(PersistFiles)}

\* a load_index that returns None for a missing directory, as its docstring
\* allows, instead of raising
LoadIndexReturnsNone(index, storage) ==
    IF ~storage.exists \/ ~AllFilesPresent(storage.files)
    THEN [error |-> "ok", index |-> <<>>]
    ELSE [error |-> "ok", index |-> ReadIndex(storage.files)]

\* DocumentIndexer.load_index: the outcome [error, index]
LoadIndexOutcome(index, storage) ==
    IF ~storage.exists
    THEN [error |-> "FileNotFoundError", index |-> index]
    ELSE IF ~AllFilesPresent(storage.files)
    THEN [error |-> IF storage.files[1].present /\ storage.files[2].present
                    THEN "ValueError" ELSE "FileNotFoundError",
          index |-> index]
    ELSE [error |-> Ok, index |-> ReadIndex(storage.files)]

\* --------------------------------------------------------------- RagChatbot
NoChatbot == [exists |-> FALSE, index |-> NoIndex, store |-> <<>>]

\* RagChatbot(retriever = InformationRetriever(index, top_k = 3))
NewChatbot(index) == [exists |-> TRUE, index |-> index, store |-> <<>>]

NoTurn == [input |-> "", before |-> <<>>, history |-> <<>>, context |-> <<>>]

\* chat() up to the completion call: retrieval, then the formatted history
\* and the prompt's parts
ComposePrompt(chatbot, input, before) ==
    [input |-> input,
     before |-> before,
     history |-> FormatChatHistory(chatbot.store),
     context |-> RetrieveInformation(chatbot.index, input, TopK).nodes]

\* a chat() that records the user's message before the completion returns
StoreAfterFailureKeepsInput(store, input) == Put(store, "user", input)

\* the stored history when retrieval or the completion raises inside chat()
StoreAfterFailure(store, input) == store

\* a chat() that records only the answer
StoreAfterSuccessAnswerOnly(store, input, response) == Put(store, "assistant", response)

\* the stored history when chat() returns response
StoreAfterSuccess(store, input, response) ==
    Put(Put(store, "user", input), "assistant", response)

\* a get_chat_history() that hands out the memory's own message list
StoreSharedWithCaller(store, before, after) == after

\* the stored history after the caller of get_chat_history() changed the
\* list it got from `before` to `after`: the list and its dicts were made by
\* the call, the strings in them are immutable
StoreAfterCallerEdit(store, before, after) == store

\* what a caller can do to the list it holds: drop its last entry, or
\* rewrite the content of its first entry
CallerEdits(list) ==
    IF list = <<>> THEN {}
    ELSE {SubSeq(list, 1, Len(list) - 1),
          [list EXCEPT ![1] = Msg(list[1].role, "edited")]}

\* clear_history() that leaves the newest turn
ResetKeepsLast(store) == IF Len(store) > 2 THEN LastN(store, 2) ELSE store

\* RagChatbot.clear_history
Reset(store) == <<>>

\* ------------------------------------------------------------------- state
VARIABLES
    dataDir,        \* ./data: [exists, docs]
    storage,        \* ./storage: [exists, files]
    dotenvKey,      \* OPENAI_API_KEY is set in .env
    nodeIds,        \* the node ids a build draws, in drawing order
    app,            \* the running program: "none", "cli", "ui" or "api"
    envKey,         \* os.environ holds OPENAI_API_KEY in the running program
    indexer,        \* DocumentIndexer.index of the program's latest indexer
    chatbot,        \* the program's RagChatbot: [exists, index, store]
    phase,          \* the chatbot's turn: "Idle", "Retrieving", "Synthesizing"
    turn,           \* the latest turn: its input and the prompt's parts
    messages,       \* st.session_state.messages
    index_created,  \* st.session_state.index_created
    api_key,        \* the page's API key field is filled
    uploaded,       \* the documents the page's upload widget holds
    chatShown,      \* the last script run drew the chat input
    event,          \* the last operation that ended, and what it reported
    retrieved,      \* the last retrieval made directly on a retriever
    held            \* the list a caller got from get_chat_history()

vars == <<dataDir, storage, dotenvKey, nodeIds, app, envKey, indexer, chatbot,
          phase, turn, messages, index_created, api_key, uploaded, chatShown,
          event, retrieved, held>>

fsVars == <<dataDir, storage, dotenvKey, nodeIds>>
pageVars == <<messages, index_created, api_key, uploaded, chatShown>>

\* an operation's outcome: the error it raised (or Ok) and the value returned
Event(op, error, value) ==
    [op |-> op, error |-> error, value |-> value,
     create |-> "", clear |-> "", load |-> "", chat |-> ""]

\* a script run's outcome: what the create button, the clear button, the
\* automatic load and the chat input did ("" when that part did not run)
PageEvent(create, clear, load, chat) ==
    [op |-> "ui_run", error |-> Ok, value |-> "",
     create |-> create, clear |-> clear, load |-> load, chat |-> chat]

NoRetrieval == [k |-> 0, query |-> "", nodes |-> <<>>, num |-> 0]

\* a fresh checkout: no corpus, no persisted index, no program running
Init ==
    /\ dataDir = [exists |-> FALSE, docs |-> {}]
    /\ storage = [exists |-> FALSE, files |-> EmptyDir]
    /\ dotenvKey \in BOOLEAN
    /\ nodeIds \in IdDraws
    /\ app = "none"
    /\ envKey = FALSE
    /\ indexer = NoIndex
    /\ chatbot = NoChatbot
    /\ phase = "Idle"
    /\ turn = NoTurn
    /\ messages = <<>>
    /\ index_created = FALSE
    /\ api_key = FALSE
    /\ uploaded = {}
    /\ chatShown = FALSE
    /\ event = Event("init", Ok, "")
    /\ retrieved = NoRetrieval
    /\ held = <<>>

\* ------------------------------------------------------------- environment
\* The user copies a document into ./data, creating the directory if needed.
EnvAddDocument(d) ==
    /\ phase = "Idle"
    /\ d \notin dataDir.docs
    /\ dataDir' = [exists |-> TRUE, docs |-> dataDir.docs \cup {d}]
    /\ event' = Event("env_add_document", Ok, "")
    /\ UNCHANGED <<storage, dotenvKey, nodeIds, app, envKey, indexer, chatbot,
                   phase, turn, pageVars, retrieved, held>>

\* The user writes OPENAI_API_KEY into .env while no program runs.
EnvSetDotenv ==
    /\ app = "none"
    /\ ~dotenvKey
    /\ dotenvKey' = TRUE
    /\ event' = Event("env_set_dotenv", Ok, "")
    /\ UNCHANGED <<dataDir, storage, nodeIds, app, envKey, indexer, chatbot,
                   phase, turn, pageVars, retrieved, held>>

\* ------------------------------------------------------------ command line
\* A process that ended: its objects are gone.
Ended(op, error) ==
    /\ app' = "none"
    /\ envKey' = FALSE
    /\ indexer' = NoIndex
    /\ chatbot' = NoChatbot
    /\ phase' = "Idle"
    /\ turn' = NoTurn
    /\ event' = Event(op, error, "")

\* app.py without the key: the module exits with status 1 before main()
CliNoKey ==
    /\ app = "none"
    /\ ~dotenvKey
    /\ Ended("cli_exit_1", "ConfigurationError")
    /\ UNCHANGED <<fsVars, pageVars, retrieved, held>>

\* main() with no corpus: creates ./data when missing and returns
CliNoCorpus ==
    /\ app = "none"
    /\ dotenvKey
    /\ ~dataDir.exists \/ dataDir.docs = {}
    /\ dataDir' = [exists |-> TRUE, docs |-> {}]
    /\ Ended("cli_no_corpus", Ok)
    /\ UNCHANGED <<storage, dotenvKey, nodeIds, pageVars, retrieved, held>>

\* main() fails in the try block: the indexer it leaves, then return
CliIndexError(error, index) ==
    /\ app' = "none"
    /\ envKey' = FALSE
    /\ indexer' = index
    /\ chatbot' = NoChatbot
    /\ phase' = "Idle"
    /\ turn' = NoTurn
    /\ event' = Event("cli_index_error", error, "")

\* the chatbot is ready and the chat loop waits for input
CliReady(op, index) ==
    /\ app' = "cli"
    /\ envKey' = TRUE
    /\ indexer' = index
    /\ chatbot' = NewChatbot(index)
    /\ phase' = "Idle"
    /\ turn' = NoTurn
    /\ event' = Event(op, Ok, "")

\* a start that loads only when ./storage holds every store file
CliLoadsWhenFilesPresent(dir) == dir.exists /\ AllFilesPresent(dir.files)

\* main(): Path(persist_dir).exists() chooses the load branch
CliTakesLoadBranch(dir) == dir.exists

\* main() when ./storage exists: load_index
CliLoad ==
    /\ app = "none"
    /\ dotenvKey
    /\ dataDir.exists /\ dataDir.docs # {}
    /\ CliTakesLoadBranch(storage)
    /\ LET out == LoadIndexOutcome(NoIndex, storage)
       IN  IF out.error = Ok
           THEN CliReady("cli_loaded", out.index)
           ELSE CliIndexError(out.error, out.index)
    /\ UNCHANGED <<fsVars, pageVars, retrieved, held>>

\* main() when ./storage does not exist: create_index, then save_index
CliBuild ==
    /\ app = "none"
    /\ dotenvKey
    /\ dataDir.exists /\ dataDir.docs # {}
    /\ ~CliTakesLoadBranch(storage)
    /\ \E built \in CreateIndexOutcomes(NoIndex, dataDir, nodeIds) :
         IF built.error # Ok
         THEN CliIndexError(built.error, built.index) /\ UNCHANGED storage
         ELSE \E saved \in SaveIndexOutcomes(built.index, storage) :
                /\ storage' = saved.storage
                /\ IF saved.error = Ok
                   THEN CliReady("cli_built", built.index)
                   ELSE CliIndexError(saved.error, built.index)
    /\ UNCHANGED <<dataDir, dotenvKey, nodeIds, pageVars, retrieved, held>>

\* the chat loop reads a line that is not a quit word and calls chat()
CliInput(q) ==
    /\ app = "cli"
    /\ phase = "Idle"
    /\ Len(chatbot.store) < 2 * MaxTurns
    /\ phase' = "Retrieving"
    /\ turn' = [NoTurn EXCEPT !.input = q, !.before = GetChatHistory(chatbot.store)]
    /\ UNCHANGED <<fsVars, app, envKey, indexer, chatbot, pageVars, event, retrieved, held>>

\* the chat loop reads "salir", "exit", "quit" or "q", or is interrupted
CliQuit ==
    /\ app = "cli"
    /\ Ended("cli_quit", Ok)
    /\ UNCHANGED <<fsVars, pageVars, retrieved, held>>

\* -------------------------------------------------------- interactive page
\* One run of the script of streamlit_app.py, from top to bottom, as a chain
\* of steps over the values it reads and writes.
PageState ==
    [dataDir |-> dataDir, storage |-> storage, indexer |-> indexer,
     chatbot |-> chatbot, messages |-> messages,
     index_created |-> index_created, create |-> "", clear |-> "", load |-> ""]

\* an upload block that saves the files and keeps the index mark
AfterUploadKeepsMark(s, files) ==
    IF files = {} THEN s
    ELSE [s EXCEPT !.dataDir = [exists |-> TRUE, docs |-> s.dataDir.docs \cup files]]

\* "Guardar archivos subidos": the widget's files are written to ./data on
\* every run that finds them, and the index is marked stale
AfterUpload(s, files) ==
    IF files = {} THEN s
    ELSE [s EXCEPT !.dataDir = [exists |-> TRUE, docs |-> s.dataDir.docs \cup files],
                   !.index_created = FALSE]

\* the "Crear/Recargar Indice" button: the states it can leave
AfterCreate(s, pressed, key, ids) ==
    IF ~pressed THEN {s}
    ELSE IF ~key THEN {[s EXCEPT !.create = "ConfigurationError"]}
    ELSE UNION {
        IF built.error # Ok
        THEN {[s EXCEPT !.indexer = built.index, !.create = built.error]}
        ELSE {IF saved.error = Ok
              THEN [s EXCEPT !.indexer = built.index,
                             !.storage = saved.storage,
                             !.chatbot = NewChatbot(built.index),
                             !.index_created = TRUE,
                             !.create = Ok]
              ELSE [s EXCEPT !.indexer = built.index,
                             !.storage = saved.storage,
                             !.create = saved.error]
              : saved \in SaveIndexOutcomes(built.index, s.storage)}
        : built \in CreateIndexOutcomes(NoIndex, s.dataDir, ids)}

\* the "Limpiar historial de chat" button
AfterClear(s, pressed) ==
    IF ~pressed THEN s
    ELSE [s EXCEPT !.messages = <<>>,
                   !.chatbot = IF s.chatbot.exists
                               THEN [s.chatbot EXCEPT !.store = Reset(s.chatbot.store)]
                               ELSE s.chatbot,
                   !.clear = IF s.chatbot.exists /\ s.chatbot.store # <<>>
                             THEN "dropped" ELSE "empty"]

\* st.stop() when ./data is missing or empty
Stopped(s) == ~s.dataDir.exists \/ s.dataDir.docs = {}

\* an automatic load that marks the index as created before it tries to load
AfterAutoLoadFlagFirst(s, env) ==
    IF s.chatbot.exists \/ s.index_created THEN s
    ELSE IF ~env THEN [s EXCEPT !.load = "ConfigurationError"]
    ELSE LET out == LoadIndexOutcome(NoIndex, s.storage)
         IN  IF out.error = "ok"
             THEN [s EXCEPT !.indexer = out.index,
                            !.chatbot = NewChatbot(out.index),
                            !.index_created = TRUE,
                            !.load = "ok"]
             ELSE [s EXCEPT !.indexer = out.index,
                            !.index_created = TRUE,
                            !.load = out.error]

\* "Cargar el chatbot si no esta inicializado"
AfterAutoLoad(s, env) ==
    IF s.chatbot.exists \/ s.index_created THEN s
    ELSE IF ~env THEN [s EXCEPT !.load = "ConfigurationError"]
    ELSE LET out == LoadIndexOutcome(NoIndex, s.storage)
         IN  IF out.error = Ok
             THEN [s EXCEPT !.indexer = out.index,
                            !.chatbot = NewChatbot(out.index),
                            !.index_created = TRUE,
                            !.load = Ok]
             ELSE [s EXCEPT !.indexer = out.index, !.load = out.error]

\* a chat handler without the test of the key field
ChatVerdictNoKeyTest(s, key, prompt) ==
    IF prompt = "" THEN ""
    ELSE IF ~s.index_created THEN "rejected_no_index"
    ELSE IF ~s.chatbot.exists THEN "failed_no_chatbot"
    ELSE "accepted"

\* what the chat input's handler does with a prompt ("" when none was sent)
ChatVerdict(s, key, prompt) ==
    IF prompt = "" THEN ""
    ELSE IF ~key THEN "rejected_no_key"
    ELSE IF ~s.index_created THEN "rejected_no_index"
    ELSE IF ~s.chatbot.exists THEN "failed_no_chatbot"
    ELSE "accepted"

UiScript(key, files, createBtn, clearBtn, prompt) ==
    \E s2 \in AfterCreate(AfterUpload(PageState, files), createBtn, key, nodeIds) :
      LET s3 == AfterClear(s2, clearBtn)
          s4 == IF Stopped(s3) THEN s3 ELSE AfterAutoLoad(s3, envKey \/ key)
          verdict == IF Stopped(s3) THEN "" ELSE ChatVerdict(s4, key, prompt)
          sent == verdict \in {"accepted", "failed_no_chatbot"}
      IN  /\ app' = "ui"
          /\ envKey' = (envKey \/ key)
          /\ api_key' = key
          /\ uploaded' = files
          /\ dataDir' = s4.dataDir
          /\ storage' = s4.storage
          /\ indexer' = s4.indexer
          /\ chatbot' = s4.chatbot
          /\ index_created' = s4.index_created
          /\ messages' = IF sent THEN Append(s4.messages, Msg("user", prompt))
                         ELSE s4.messages
          /\ chatShown' = ~Stopped(s3)
          /\ event' = PageEvent(s4.create, s4.clear, s4.load, verdict)
          /\ phase' = IF verdict = "accepted" THEN "Retrieving" ELSE "Idle"
          /\ turn' = IF verdict = "accepted"
                     THEN [NoTurn EXCEPT !.input = prompt,
                                         !.before = GetChatHistory(s4.chatbot.store)]
                     ELSE turn
          /\ UNCHANGED <<dotenvKey, nodeIds, retrieved, held>>

\* "streamlit run": a new session; the key field starts with the .env value
UiOpen ==
    /\ app = "none"
    /\ UiScript(dotenvKey, {}, FALSE, FALSE, "")

\* a page that runs its script while a turn is in flight
UiIdleAnyPhase == app = "ui"

\* a script run starts only after the previous one has ended
UiIdle == app = "ui" /\ phase = "Idle"

\* the user fills or empties the key field
UiSetKey(key) ==
    /\ UiIdle
    /\ key # api_key
    /\ UiScript(key, uploaded, FALSE, FALSE, "")

\* the user adds a document to the upload widget
UiUpload(d) ==
    /\ UiIdle
    /\ d \notin uploaded
    /\ UiScript(api_key, uploaded \cup {d}, FALSE, FALSE, "")

\* the user removes the files from the upload widget
UiRemoveUploads ==
    /\ UiIdle
    /\ uploaded # {}
    /\ UiScript(api_key, {}, FALSE, FALSE, "")

UiCreate ==
    /\ UiIdle
    /\ UiScript(api_key, uploaded, TRUE, FALSE, "")

UiClear ==
    /\ UiIdle
    /\ UiScript(api_key, uploaded, FALSE, TRUE, "")

UiChat(q) ==
    /\ UiIdle
    /\ chatShown
    /\ Len(messages) < MaxMessages
    /\ chatbot.exists => Len(chatbot.store) < 2 * MaxTurns
    /\ UiScript(api_key, uploaded, FALSE, FALSE, q)

\* the browser session ends
UiClose ==
    /\ UiIdle
    /\ Ended("ui_closed", Ok)
    /\ messages' = <<>>
    /\ index_created' = FALSE
    /\ api_key' = FALSE
    /\ uploaded' = {}
    /\ chatShown' = FALSE
    /\ UNCHANGED <<fsVars, retrieved, held>>

\* ------------------------------------------------------------ the chat turn
\* chat(): retrieve_information returned; the prompt is composed
ChatRetrieveOk ==
    /\ phase = "Retrieving"
    /\ phase' = "Synthesizing"
    /\ turn' = ComposePrompt(chatbot, turn.input, turn.before)
    /\ chatbot' = [chatbot EXCEPT !.index = IndexAfterRetrieve(@, turn.input, TopK)]
    /\ UNCHANGED <<fsVars, app, envKey, indexer, pageVars, event, retrieved, held>>

\* chat(): retrieve_information or llm.complete raised; the front-end reports
\* the error and goes on
ChatFail ==
    /\ phase \in {"Retrieving", "Synthesizing"}
    /\ phase' = "Idle"
    /\ chatbot' = [chatbot EXCEPT !.store = StoreAfterFailure(chatbot.store, turn.input)]
    /\ event' = Event("chat_failed", "ProviderError", "")
    /\ UNCHANGED <<fsVars, app, envKey, indexer, turn, pageVars, retrieved, held>>

\* chat(): llm.complete returned r; the history is updated, r is returned
\* and the page appends it to its messages
ChatCompleteOk(r) ==
    /\ phase = "Synthesizing"
    /\ phase' = "Idle"
    /\ chatbot' = [chatbot EXCEPT !.store = StoreAfterSuccess(chatbot.store, turn.input, r)]
    /\ messages' = IF app = "ui" THEN Append(messages, Msg("assistant", r)) ELSE messages
    /\ event' = Event("chat_ok", Ok, r)
    /\ UNCHANGED <<fsVars, app, envKey, indexer, turn, index_created, api_key,
                   uploaded, chatShown, retrieved, held>>

\* ---------------------------------------------------------- specifications
\* The two front-ends over one working directory, one program at a time;
\* the chat messages are short.
AppInputs == {"q_short"}
AppResponses == {"a_short"}

Next ==
    \/ \E d \in Docs : EnvAddDocument(d)
    \/ EnvSetDotenv
    \/ CliNoKey
    \/ CliNoCorpus
    \/ CliLoad
    \/ CliBuild
    \/ \E q \in AppInputs : CliInput(q)
    \/ CliQuit
    \/ UiOpen
    \/ \E key \in BOOLEAN : UiSetKey(key)
    \/ \E d \in Docs : UiUpload(d)
    \/ UiRemoveUploads
    \/ UiCreate
    \/ UiClear
    \/ \E q \in AppInputs : UiChat(q)
    \/ UiClose
    \/ ChatRetrieveOk
    \/ ChatFail
    \/ \E r \in AppResponses : ChatCompleteOk(r)

Spec == Init /\ [][Next]_vars

\* ----------------------------------------------- the library used directly
\* a program that drives DocumentIndexer and InformationRetriever itself
ApiNewIndexer ==
    /\ app = "api"
    /\ indexer # NoIndex
    /\ indexer' = NoIndex
    /\ event' = Event("new_indexer", Ok, "")
    /\ UNCHANGED <<fsVars, app, envKey, chatbot, phase, turn, pageVars, retrieved, held>>

ApiCreateIndex ==
    /\ app = "api"
    /\ \E out \in CreateIndexOutcomes(indexer, dataDir, nodeIds) :
         /\ indexer' = out.index
         /\ event' = Event("create_index", out.error, "")
    /\ UNCHANGED <<fsVars, app, envKey, chatbot, phase, turn, pageVars, retrieved, held>>

ApiSaveIndex ==
    /\ app = "api"
    /\ \E out \in SaveIndexOutcomes(indexer, storage) :
         /\ storage' = out.storage
         /\ event' = Event("save_index", out.error, "")
    /\ UNCHANGED <<dataDir, dotenvKey, nodeIds, app, envKey, indexer, chatbot,
                   phase, turn, pageVars, retrieved, held>>

ApiLoadIndex ==
    /\ app = "api"
    /\ LET out == LoadIndexOutcome(indexer, storage)
       IN  /\ indexer' = out.index
           /\ event' = Event("load_index", out.error, "")
    /\ UNCHANGED <<fsVars, app, envKey, chatbot, phase, turn, pageVars, retrieved, held>>

\* InformationRetriever(index, top_k = k).get_retrieval_context(q), with the
\* nodes its retriever returned
ApiRetrieve(q, k) ==
    /\ app = "api"
    /\ indexer # NoIndex
    /\ retrieved' = [k |-> k, query |-> q,
                     nodes |-> Search(indexer, QueryVec(q), k),
                     num |-> GetRetrievalContext(indexer, q, k).num_nodes_retrieved]
    /\ indexer' = IndexAfterRetrieve(indexer, q, k)
    /\ event' = Event("retrieve", Ok, "")
    /\ UNCHANGED <<fsVars, app, envKey, chatbot, phase, turn, pageVars, held>>

InitIndex ==
    /\ dataDir \in {[exists |-> FALSE, docs |-> {}]}
                     \cup {[exists |-> TRUE, docs |-> S] : S \in SUBSET Docs}
    /\ storage = [exists |-> FALSE, files |-> EmptyDir]
    /\ dotenvKey = TRUE
    /\ nodeIds \in IdDraws
    /\ app = "api"
    /\ envKey = TRUE
    /\ indexer = NoIndex
    /\ chatbot = NoChatbot
    /\ phase = "Idle"
    /\ turn = NoTurn
    /\ messages = <<>>
    /\ index_created = FALSE
    /\ api_key = FALSE
    /\ uploaded = {}
    /\ chatShown = FALSE
    /\ event = Event("init", Ok, "")
    /\ retrieved = NoRetrieval
    /\ held = <<>>

NextIndex ==
    \/ \E d \in Docs : EnvAddDocument(d)
    \/ ApiNewIndexer
    \/ ApiCreateIndex
    \/ ApiSaveIndex
    \/ ApiLoadIndex
    \/ \E q \in UserInputs, k \in 1..MaxK : ApiRetrieve(q, k)

SpecIndex == InitIndex /\ [][NextIndex]_vars

\* ------------------------------------------------------- one chat session
\* A chatbot that a front-end has just built over the whole corpus; the
\* messages are short or long.
InitChat ==
    /\ dataDir = [exists |-> TRUE, docs |-> Docs]
    /\ nodeIds \in IdDraws
    /\ storage = [exists |-> TRUE,
                  files |-> WriteFiles(EmptyDir, IndexOf(Docs, nodeIds), Len(PersistFiles))]
    /\ dotenvKey = TRUE
    /\ app \in {"cli", "ui"}
    /\ envKey = TRUE
    /\ indexer = IndexOf(Docs, nodeIds)
    /\ chatbot = NewChatbot(IndexOf(Docs, nodeIds))
    /\ phase = "Idle"
    /\ turn = NoTurn
    /\ messages = <<>>
    /\ index_created = (app = "ui")
    /\ api_key = (app = "ui")
    /\ uploaded = {}
    /\ chatShown = (app = "ui")
    /\ event = IF app = "ui" THEN PageEvent(Ok, "", "", "") ELSE Event("cli_built", Ok, "")
    /\ retrieved = NoRetrieval
    /\ held = <<>>

\* a caller reads chatbot.get_chat_history() between turns
ApiGetChatHistory ==
    /\ chatbot.exists
    /\ phase = "Idle"
    /\ held' = GetChatHistory(chatbot.store)
    /\ event' = Event("get_chat_history", Ok, "")
    /\ UNCHANGED <<fsVars, app, envKey, indexer, chatbot, phase, turn, pageVars,
                   retrieved>>

\* the caller changes the list it has just read
ApiEditHeld ==
    /\ chatbot.exists
    /\ phase = "Idle"
    /\ event.op = "get_chat_history"
    /\ \E edited \in CallerEdits(held) :
         /\ held' = edited
         /\ chatbot' = [chatbot EXCEPT
                            !.store = StoreAfterCallerEdit(@, held, edited)]
    /\ event' = Event("held_edited", Ok, "")
    /\ UNCHANGED <<fsVars, app, envKey, indexer, phase, turn, pageVars, retrieved>>

NextChat ==
    \/ ApiGetChatHistory
    \/ ApiEditHeld
    \/ \E q \in UserInputs : CliInput(q)
    \/ \E q \in UserInputs : UiChat(q)
    \/ UiClear
    \/ ChatRetrieveOk
    \/ ChatFail
    \/ \E r \in Responses : ChatCompleteOk(r)

SpecChat == InitChat /\ [][NextChat]_vars

\* the sessions SpecChat starts from are states the front-ends reach
ChatStartReached ==
    /\ app \in {"cli", "ui"}
    /\ dataDir = [exists |-> TRUE, docs |-> Docs]
    /\ storage = [exists |-> TRUE,
                  files |-> WriteFiles(EmptyDir, IndexOf(Docs, nodeIds), Len(PersistFiles))]
    /\ indexer = IndexOf(Docs, nodeIds)
    /\ chatbot = NewChatbot(IndexOf(Docs, nodeIds))
    /\ phase = "Idle" /\ turn = NoTurn /\ messages = <<>>
    /\ index_created = (app = "ui") /\ api_key = (app = "ui")
    /\ uploaded = {} /\ chatShown = (app = "ui") /\ dotenvKey /\ envKey
    /\ event = IF app = "ui" THEN PageEvent(Ok, "", "", "") ELSE Event("cli_built", Ok, "")

\* ------------------------------------------------------------------ claims
\* C1: when retrieval or the completion raises inside chat(), the history
\* get_chat_history() returns is the one from before the call, and the
\* session is still there, idle or working on a later call.
C1_FailedTurnKeepsHistory ==
    event.op = "chat_failed" =>
        /\ GetChatHistory(chatbot.store) = turn.before
        /\ chatbot.exists
        /\ app \in {"cli", "ui"}

\* a later call is being processed after a turn failed on a session that
\* already held a turn
C1_Witness ==
    /\ event.op = "chat_failed"
    /\ phase = "Synthesizing"
    /\ chatbot.store # <<>>

\* what get_chat_history() returns after a successful chat(): two entries
\* more than before, ending in the user's input and the response
GrewByTurn(before, after, input, response) ==
    /\ Len(after) = Len(before) + 2
    /\ after[Len(after) - 1] = Msg("user", input)
    /\ after[Len(after)] = Msg("assistant", response)

C3_ClearEmptiesHistory ==
    /\ [](event.clear # "" => GetChatHistory(chatbot.store) = <<>>)
    /\ [][(event.clear # "" /\ phase = "Idle" /\ phase' = "Retrieving")
            => turn'.before = <<>>]_vars
    /\ []((phase = "Synthesizing" /\ turn.before = <<>>)
            => turn.history = <<<<Placeholder>>>>)

\* the clear button has dropped a history that held turns
C3_Witness ==
    /\ event.clear = "dropped"
    /\ GetChatHistory(chatbot.store) = <<>>
    /\ turn.history # <<>>

C5_TurnOrder ==
    [][/\ phase' # phase =>
            <<phase, phase'>> \in {<<"Idle", "Retrieving">>,
                                   <<"Retrieving", "Synthesizing">>,
                                   <<"Synthesizing", "Idle">>,
                                   <<"Retrieving", "Idle">>}
       /\ phase' = "Retrieving" => phase = "Idle"
       /\ (phase # "Idle" /\ phase' # "Idle") => turn'.input = turn.input
       /\ Len(chatbot'.store) > Len(chatbot.store) =>
            (phase = "Synthesizing" /\ phase' = "Idle" /\ event'.op = "chat_ok")
      ]_vars

\* two turns have run to completion one after the other
C5_Witness ==
    /\ event.op = "chat_ok"
    /\ phase = "Idle"
    /\ Len(chatbot.store) >= 4

\* C6: create_index on a missing ./data raises the not-found error and on an
\* empty ./data the empty-corpus error; the indexer's index stays unset and
\* ./storage is left as it was, also when a front-end finds no corpus.
C6_NoCorpusNoIndex ==
    [][/\ (phase = "Idle" /\ event'.op = "ui_run"
            /\ event'.create \notin {"", "ConfigurationError"} /\ Stopped(PageState'))
          => /\ event'.create = IF dataDir'.exists THEN "ValueError"
                                ELSE "FileNotFoundError"
             /\ indexer' = NoIndex
             /\ storage' = storage
             /\ chatbot' = chatbot
       /\ event'.op = "cli_no_corpus"
          => /\ indexer' = NoIndex
             /\ storage' = storage
             /\ ~chatbot'.exists
      ]_vars

\* the create button has failed on an empty ./data while ./storage is absent
C6_Witness ==
    /\ event.op = "ui_run"
    /\ event.create = "ValueError"
    /\ dataDir.exists /\ dataDir.docs = {}
    /\ indexer = NoIndex
    /\ ~storage.exists

\* C7 as stated: whatever a failed build leaves in ./storage, a later
\* load_index accepts the directory only when it holds exactly what one
\* complete persist of an index wrote.
C7_NoPartialIndexPersisted ==
    LoadIndexOutcome(NoIndex, storage).error = Ok
        => HoldsCompleteIndex(storage.files)

\* C8: load_index on a missing ./storage raises the not-found error and sets
\* no index; no chatbot is made, the page's session stays without one and
\* rejects the chat input. A command-line start that fails on the index
\* ends without a chatbot.
C8_MissingIndexNoChatbot ==
    /\ (event.op = "ui_run" /\ event.load \notin {"", "ConfigurationError"}
            /\ ~storage.exists)
         => /\ event.load = "FileNotFoundError"
            /\ indexer = NoIndex
            /\ ~chatbot.exists
            /\ ~index_created
            /\ event.chat \in {"", "rejected_no_key", "rejected_no_index"}
            /\ phase = "Idle"
    /\ event.op = "cli_index_error" => (~chatbot.exists /\ app = "none")

\* the page found no ./storage and turned a chat message away
C8_Witness ==
    /\ event.op = "ui_run"
    /\ event.load = "FileNotFoundError"
    /\ ~storage.exists
    /\ event.chat = "rejected_no_index"
    /\ ~chatbot.exists

\* the results of every search the model asks of an index
SearchResults(index) ==
    [q \in UserInputs |-> [k \in 1..MaxK |-> Search(index, QueryVec(q), k)]]

PositionOf(index, id) == CHOOSE i \in 1..Len(index) : index[i].id = id

Descending(nodes) ==
    \A i, j \in 1..Len(nodes) : i < j => nodes[i].score >= nodes[j].score

TiesInInsertionOrder(index, nodes) ==
    \A i, j \in 1..Len(nodes) :
        (i < j /\ nodes[i].score = nodes[j].score)
            => PositionOf(index, nodes[i].id) < PositionOf(index, nodes[j].id)

\* C10 as stated: min(top_k, entries) results, by descending score, equal
\* scores in insertion order, and num_nodes_retrieved is that count.
C10_Original ==
    event.op = "retrieve" =>
        /\ Len(retrieved.nodes) = Min(retrieved.k, Len(indexer))
        /\ Len(retrieved.nodes) <= retrieved.k
        /\ Descending(retrieved.nodes)
        /\ TiesInInsertionOrder(indexer, retrieved.nodes)
        /\ retrieved.num = Len(retrieved.nodes)

\* C10 amended: min(top_k, entries) results of the index, by descending
\* score, and num_nodes_retrieved is that count.
C10_TopKDescending ==
    event.op = "retrieve" =>
        /\ Len(retrieved.nodes) = Min(retrieved.k, Len(indexer))
        /\ Len(retrieved.nodes) <= retrieved.k
        /\ Descending(retrieved.nodes)
        /\ \A i \in 1..Len(retrieved.nodes) :
              \E j \in 1..Len(indexer) :
                 /\ indexer[j].id = retrieved.nodes[i].id
                 /\ retrieved.nodes[i].score =
                        Similarity(QueryVec(retrieved.query), indexer[j].vec)
        /\ retrieved.num = Len(retrieved.nodes)

\* a retrieval over an index of more than top_k nodes has returned top_k of
\* them, the first with a positive score
C10_Witness ==
    /\ event.op = "retrieve"
    /\ retrieved.k < Len(indexer)
    /\ Len(retrieved.nodes) = retrieved.k
    /\ retrieved.nodes[1].score > 0

C12_NoKeyNoBuildNoChat ==
    /\ [][/\ (app = "none" /\ ~dotenvKey /\ event'.op \in
                    {"cli_exit_1", "cli_no_corpus", "cli_index_error",
                     "cli_built", "cli_loaded"})
                => /\ event'.op = "cli_exit_1"
                   /\ event'.error # Ok
                   /\ app' = "none"
                   /\ indexer' = NoIndex
                   /\ ~chatbot'.exists
                   /\ storage' = storage /\ dataDir' = dataDir
          /\ (event'.op = "ui_run" /\ ~api_key')
                => /\ event'.create \in {"", "ConfigurationError"}
                   /\ event'.chat \in {"", "rejected_no_key"}
                   /\ storage' = storage
                   /\ phase' = "Idle"]_vars
    /\ [](phase # "Idle" =>
            /\ app = "ui" => api_key
            /\ app = "cli" => dotenvKey /\ envKey)

\* a session that holds a chatbot loaded while the key was there has had its
\* key field emptied, and has turned a chat message away
C12_Witness ==
    /\ event.op = "ui_run"
    /\ ~api_key
    /\ chatbot.exists
    /\ index_created
    /\ event.chat = "rejected_no_key"

\* the previews the debug view gives for the last retrieval
LastPreviews ==
    GetRetrievalContext(indexer, retrieved.query, retrieved.k).nodes_summary

\* C13 as stated: every preview is the node's text cut to its first 100
\* characters: at most 100 characters long, and the whole text when the
\* text has at most 100 characters.
C13_Original ==
    event.op = "retrieve" =>
        /\ Len(LastPreviews) = Len(retrieved.nodes)
        /\ \A i \in 1..Len(retrieved.nodes) :
              LET text == NodeText(retrieved.nodes[i].text)
                  preview == LastPreviews[i].text_preview
              IN  /\ Len(preview) <= PreviewLen
                  /\ preview = SubSeq(text, 1, Min(PreviewLen, Len(text)))

\* C13: for every retrieved node the debug view's preview is the whole text
\* when the text has at most 100 characters; for a longer text it is the
\* first 100 characters followed by "...", 103 characters in all. The view
\* gives one preview per node, with the node's score.
C13_PreviewIsPrefixWithEllipsis ==
    event.op = "retrieve" =>
        /\ Len(LastPreviews) = Len(retrieved.nodes)
        /\ \A i \in 1..Len(retrieved.nodes) :
              LET text == NodeText(retrieved.nodes[i].text)
                  preview == LastPreviews[i].text_preview
              IN  /\ LastPreviews[i].score = retrieved.nodes[i].score
                  /\ Len(preview) <= PreviewLen + Len(Ellipsis)
                  /\ Len(text) <= PreviewLen => preview = text
                  /\ Len(text) > PreviewLen =>
                        preview = SubSeq(text, 1, PreviewLen) \o Ellipsis

\* a retrieval has returned a node of exactly 100 characters and a longer one
C13_Witness ==
    /\ event.op = "retrieve"
    /\ \E i, j \in 1..Len(retrieved.nodes) :
          /\ retrieved.nodes[i].text.len = PreviewLen
          /\ retrieved.nodes[j].text.len > PreviewLen

\* a step in which get_chat_history() was called
GotChatHistory ==
    event'.op = "get_chat_history" /\ phase = "Idle" /\ phase' = "Idle"

\* a step in which the caller changed the list it got
EditedHeld == event.op = "get_chat_history" /\ event'.op = "held_edited"

CliStarted ==
    /\ app = "none" /\ dotenvKey
    /\ dataDir.exists /\ dataDir.docs # {}
    /\ event'.op \in {"cli_exit_1", "cli_no_corpus", "cli_index_error",
                      "cli_built", "cli_loaded"}

\* C15: started with a non-empty corpus, app.py builds and saves the index
\* exactly when ./storage does not exist. When ./storage exists, the index
\* is the one load_index reads from it, nothing is built and ./storage is
\* not written, whatever ./data holds by now. In either branch a failure
\* ends the program without a chatbot.
C15_BuildIffNoStorage ==
    [][CliStarted =>
        /\ event'.op \in {"cli_index_error", "cli_built", "cli_loaded"}
        /\ storage.exists =>
              /\ event'.op # "cli_built"
              /\ storage' = storage
              /\ indexer' \in {NoIndex, ReadIndex(storage.files)}
              /\ event'.op = "cli_loaded" =>
                    /\ indexer' = ReadIndex(storage.files)
                    /\ chatbot' = NewChatbot(indexer')
        /\ ~storage.exists =>
              /\ event'.op # "cli_loaded"
              /\ indexer' \in {NoIndex, IndexOf(dataDir.docs, nodeIds)}
              /\ event'.op = "cli_built" =>
                    /\ indexer' = IndexOf(dataDir.docs, nodeIds)
                    /\ storage'.exists
                    /\ HoldsCompleteIndex(storage'.files)
                    /\ ReadIndex(storage'.files) = indexer'
                    /\ chatbot' = NewChatbot(indexer')
        /\ event'.op = "cli_index_error" =>
              /\ event'.error # Ok
              /\ ~chatbot'.exists
              /\ app' = "none"]_vars

\* app.py has loaded a persisted index that is older than the corpus
C15_Witness ==
    /\ event.op = "cli_loaded"
    /\ app = "cli"
    /\ chatbot.exists
    /\ Len(indexer) < Cardinality(dataDir.docs)

\* C16 as stated, for the first message after the index was made: when the
\* last script run created the index with the key supplied, a chat message
\* sent next, with the same key and the same files in the upload widget, is
\* passed to chat() and is not turned away for want of an index.
C16_ChatAfterCreateAccepted ==
    [][(/\ event.op = "ui_run" /\ event.create = Ok
        /\ api_key /\ index_created /\ chatbot.exists
        /\ event'.op = "ui_run" /\ event'.chat # ""
        /\ api_key' /\ uploaded' = uploaded
        /\ storage' = storage /\ dataDir' = dataDir)
            => /\ event'.chat = "accepted"
               /\ phase' = "Retrieving"]_vars

\* C17 as stated: whenever the page has no turn in flight, the messages it
\* displays are the turns of its chatbot's history, in the same order (and
\* there are none while the session has no chatbot).
C17_MessagesMatchHistory ==
    (app = "ui" /\ phase = "Idle") =>
        messages = IF chatbot.exists THEN GetChatHistory(chatbot.store) ELSE <<>>

\* C18: in the page's session index_created implies that the session holds
\* a chatbot, so the chat handler never calls chat() on a missing chatbot.
C18_IndexCreatedHasChatbot ==
    /\ (app = "ui" /\ index_created) => chatbot.exists
    /\ event.chat # "failed_no_chatbot"
    /\ (app = "ui" /\ phase # "Idle") => chatbot.exists

\* a re-creation has failed on a page that keeps its earlier chatbot and
\* its index_created mark
C18_Witness ==
    /\ app = "ui"
    /\ event.op = "ui_run"
    /\ event.create \notin {"", Ok}
    /\ index_created
    /\ chatbot.exists

\* a step that is one run of the page's script
UiRan == phase = "Idle" /\ event'.op = "ui_run" /\ phase' \in {"Idle", "Retrieving"}

\* C19: a script run that saves uploaded files leaves index_created false
\* unless the same run created or loaded an index after saving them, and
\* answers no chat message. index_created becomes true again only in a run
\* that created or loaded an index, and a chat message is passed to the
\* session's chatbot only while index_created is true: so after an upload
\* the chatbot of the earlier index, though still held, answers nothing
\* until an index has been created or loaded again.
C19_UploadInvalidatesIndex ==
    [][UiRan =>
        /\ (uploaded' # {} /\ event'.create # Ok /\ event'.load # Ok)
              => ~index_created'
        /\ uploaded' # {} => event'.chat # "accepted" /\ phase' = "Idle"
        /\ (~index_created /\ index_created')
              => event'.create = Ok \/ event'.load = Ok
        /\ (event'.create # Ok /\ event'.load # Ok /\ chatbot.exists)
              => chatbot'.index = chatbot.index
        /\ event'.chat = "accepted" => index_created' /\ chatbot'.exists]_vars

\* a page that holds the chatbot of an earlier index has saved an upload
\* and has turned a chat message away
C19_Witness ==
    /\ app = "ui"
    /\ uploaded # {}
    /\ chatbot.exists
    /\ Len(chatbot.index) < Cardinality(dataDir.docs)
    /\ ~index_created
    /\ event.chat = "rejected_no_index"

=============================================================================
